---- MODULE Spec2Model ----
(***************************************************************************)
(* Captain Nemo (captain_nemo.py): a Nautilus extension that walks the     *)
(* widget tree of every file-manager window, locates widgets by name,      *)
(* rewrites the process-wide accelerator map and connects key handlers.    *)
(*                                                                         *)
(* The host (Nautilus/Gtk) owns the widget trees.  A tree is a record of   *)
(* three functions over the nodes 1..MaxNodes: node 1 is the Gtk.Window,   *)
(* parent[n] < n for every other node, sub[n] says whether n hangs off its *)
(* parent as the parent's submenu (get_submenu) or as one of its children  *)
(* (get_children, in ascending node order), and role[n] gives the Gtk      *)
(* class and the widget name.  None (0) is Python's None.                  *)
(***************************************************************************)
EXTENDS Integers, Sequences, FiniteSets, TLC

\* ------------------------------------------------------------------ bounds
MaxNodes == 5

None == 0

Nodes == 1..MaxNodes

\* ------------------------------------------------------- the host's widgets
\* The Gtk class of a widget as far as the program's isinstance tests and
\* method calls see it, and the widget's name (Gtk.Widget.get_name).
RoleKind ==
  [ window   |-> "Window",    box      |-> "Container", leaf     |-> "Widget",
    paned    |-> "Paned",     toolbar  |-> "Container", locentry |-> "Widget",
    menubar  |-> "MenuBar",   menu     |-> "Menu",      item     |-> "MenuItem",
    showhide |-> "MenuItem",  copy     |-> "MenuItem",  move     |-> "MenuItem",
    mkdir    |-> "MenuItem",  trash    |-> "MenuItem",  edit     |-> "Menu",
    editlbl  |-> "Widget",    listview |-> "Container", treeview |-> "TreeView" ]

RoleName ==
  [ window   |-> "NautilusWindow",       box      |-> "GtkBox",
    leaf     |-> "GtkLabel",             paned    |-> "GtkPaned",
    toolbar  |-> "NautilusToolbar",      locentry |-> "NautilusLocationEntry",
    menubar  |-> "MenuBar",              menu     |-> "GtkMenu",
    item     |-> "GtkMenuItem",          showhide |-> "Show Hide Extra Pane",
    copy     |-> "Copy to next pane",    move     |-> "Move to next pane",
    mkdir    |-> "New Folder",           trash    |-> "Trash",
    edit     |-> "Edit",                 editlbl  |-> "Edit",
    listview |-> "NautilusListView",     treeview |-> "GtkTreeView" ]

Kind(t, n) == RoleKind[t.role[n]]

get_name(t, n) == RoleName[t.role[n]]

\* Gtk.Widget.get_parent.  A Gtk.Menu is not a child of the menu item it is
\* the submenu of: its parent is its own popup shell, a toplevel outside the
\* window's tree, which no test of the program tells from None.
get_parent(t, n) == IF t.sub[n] THEN None ELSE t.parent[n]

\* isinstance(widget, Gtk.Container)
IsContainer(t, n) ==
  Kind(t, n) \in {"Window", "Container", "Paned", "MenuBar", "Menu", "MenuItem", "TreeView"}

\* isinstance(widget, Gtk.MenuItem)
IsMenuItem(t, n) == Kind(t, n) = "MenuItem"

\* isinstance(p, Gtk.Paned)
IsPaned(t, n) == Kind(t, n) = "Paned"

RECURSIVE SortedSeq(_)
SortedSeq(S) ==
  IF S = {} THEN <<>>
  ELSE LET m == CHOOSE x \in S : \A y \in S : x <= y
       IN <<m>> \o SortedSeq(S \ {m})

ChildSet(t, n) == {c \in Nodes : t.parent[c] = n /\ ~t.sub[c]}

get_children(t, n) == SortedSeq(ChildSet(t, n))

get_submenu(t, n) ==
  IF \E c \in Nodes : t.parent[c] = n /\ t.sub[c]
  THEN CHOOSE c \in Nodes : t.parent[c] = n /\ t.sub[c]
  ELSE None

\* Gtk.Paned.get_child1 / get_child2
get_child1(t, n) == IF Len(get_children(t, n)) >= 1 THEN get_children(t, n)[1] ELSE None

get_child2(t, n) == IF Len(get_children(t, n)) >= 2 THEN get_children(t, n)[2] ELSE None

\* A composite of widgets: node 1 is the window, only containers have
\* children, only menu items have a submenu (one at most).
Composite(t) ==
  /\ t.parent[1] = None /\ ~t.sub[1] /\ t.role[1] = "window"
  /\ \A n \in Nodes \ {1} :
       /\ t.role[n] # "window"
       /\ IF t.sub[n]
          THEN /\ IsMenuItem(t, t.parent[n])
               /\ \A m \in Nodes : (t.parent[m] = t.parent[n] /\ t.sub[m]) => m = n
          ELSE IsContainer(t, t.parent[n])

\* The trees Gtk lets the host build: a Gtk.Window and a Gtk.MenuItem are
\* Gtk.Bin (one child at most), a Gtk.Paned has two panes, a Gtk.Menu is the
\* submenu of a menu item and nothing else is, a menu item sits in a menu
\* bar or a menu and these hold nothing but menu items.
GtkTree(t) ==
  /\ Composite(t)
  /\ \A n \in Nodes :
       /\ Kind(t, n) \in {"Window", "MenuItem"} => Cardinality(ChildSet(t, n)) <= 1
       /\ Kind(t, n) = "Paned" => Cardinality(ChildSet(t, n)) <= 2
       /\ (Kind(t, n) = "Menu") <=> t.sub[n]
       /\ Kind(t, n) = "MenuItem" => Kind(t, t.parent[n]) \in {"MenuBar", "Menu"}
       /\ (n # 1 /\ ~t.sub[n] /\ Kind(t, t.parent[n]) \in {"MenuBar", "Menu"})
            => Kind(t, n) = "MenuItem"

ParentFns ==
  {p \in [Nodes -> 0..MaxNodes] : p[1] = None /\ \A n \in Nodes \ {1} : p[n] >= 1 /\ p[n] < n}

RoleFns(palette) ==
  {[n \in Nodes |-> IF n = 1 THEN "window" ELSE r[n]] : r \in [Nodes \ {1} -> palette]}

SubFns == {[n \in Nodes |-> n \in S] : S \in SUBSET (Nodes \ {1})}

\* The composites over the widgets of a palette.
TreesOver(palette) ==
  {t \in [parent : ParentFns, sub : SubFns, role : RoleFns(palette)] : Composite(t)}

\* The window trees over the widgets of a palette; what is a submenu
\* follows from the roles.
GtkTreesOver(palette) ==
  {t \in {[parent |-> pr[1], role |-> pr[2],
           sub |-> [n \in Nodes |-> RoleKind[pr[2][n]] = "Menu"]] :
            pr \in ParentFns \X RoleFns(palette)} : GtkTree(t)}

\* ---------------------------------------------------------------- class walk
\* A walk object: the generator self._generator as the stack of its nested
\* _walk frames (innermost last), and the fields _visit_submenu,
\* _skip_children and _depth.  A frame is suspended at
\*   "start"   not started yet (line 64)
\*   "yield"   yield widget (line 66)
\*   "child"   yield w inside the loop over the children (line 74);
\*             idx is the position of the child being walked (0 before
\*             the loop has started)
\*   "sub0"    the children are done, line 75 is next
\*   "sub"     yield w inside the loop over the submenu (line 77)
Frame(widget) == [widget |-> widget, pc |-> "start", idx |-> 0]

\* walk.__init__
walk(top, visit_submenu) ==
  [stack |-> <<Frame(top)>>, visit_submenu |-> visit_submenu,
   skip_children |-> FALSE, depth |-> 0]

\* walk.depth
depth(wk) == wk.depth

\* walk.skip_children
skip_children(wk) == [wk EXCEPT !.skip_children = TRUE]

SkipNeverSeen(wk) == FALSE

\* line 67: if self._skip_children
SkipRequested(wk) == wk.skip_children

\* line 71: the children the loop of lines 72-74 goes through
LoopChildren(t, widget) ==
  IF IsContainer(t, widget) THEN get_children(t, widget) ELSE <<>>

SubmenuAlways(t, wk, widget) == IsMenuItem(t, widget)

\* line 75: if self._visit_submenu and isinstance(widget, Gtk.MenuItem)
VisitsSubmenu(t, wk, widget) == wk.visit_submenu /\ IsMenuItem(t, widget)

\* next() on the generator: runs the innermost frame until the next yield.
\* The result is the walk object after the step and the widget yielded,
\* None when the generator is exhausted (StopIteration).
RECURSIVE Resume(_, _)
Resume(t, wk) ==
  IF wk.stack = <<>> THEN [wk |-> wk, out |-> None]
  ELSE
    LET n    == Len(wk.stack)
        f    == wk.stack[n]
        rest == SubSeq(wk.stack, 1, n - 1)
    IN CASE f.pc = "start" ->
              IF f.widget = None
              THEN Resume(t, [wk EXCEPT !.stack = rest])
              ELSE [wk |-> [wk EXCEPT !.stack[n].pc = "yield"], out |-> f.widget]
         [] f.pc = "yield" ->
              IF SkipRequested(wk)
              THEN Resume(t, [wk EXCEPT !.skip_children = FALSE, !.stack = rest])
              ELSE Resume(t, [wk EXCEPT !.depth = @ + 1, !.stack[n].pc = "child"])
         [] f.pc = "child" ->
              LET ch == LoopChildren(t, f.widget)
              IN IF f.idx < Len(ch)
                 THEN Resume(t, [wk EXCEPT !.stack =
                        Append(Append(rest, [f EXCEPT !.idx = @ + 1]), Frame(ch[f.idx + 1]))])
                 ELSE Resume(t, [wk EXCEPT !.stack[n].pc = "sub0"])
         [] f.pc = "sub0" ->
              IF VisitsSubmenu(t, wk, f.widget)
              THEN Resume(t, [wk EXCEPT !.stack =
                     Append(Append(rest, [f EXCEPT !.pc = "sub"]),
                            Frame(get_submenu(t, f.widget)))])
              ELSE Resume(t, [wk EXCEPT !.depth = @ - 1, !.stack = rest])
         [] f.pc = "sub" ->
              Resume(t, [wk EXCEPT !.depth = @ - 1, !.stack = rest])

\* A for loop over a walk whose body calls skip_children() on the widgets of
\* skipAt and never leaves the loop: the widgets in the order they are yielded.
RECURSIVE Drain(_, _, _, _)
Drain(t, wk, skipAt, acc) ==
  LET r == Resume(t, wk)
  IN IF r.out = None THEN acc
     ELSE Drain(t, IF r.out \in skipAt THEN skip_children(r.wk) ELSE r.wk,
                skipAt, Append(acc, r.out))

\* ------------------------------------------------------ Gtk.AccelMap
\* Gtk.accelerator_parse: the (keyval, modifier mask) of an accelerator string
\* (GDK keyvals; 4 is Gdk.ModifierType.CONTROL_MASK).
accelerator_parse(accel) ==
  CASE accel = "F3" -> <<65472, 0>>
    [] accel = "F4" -> <<65473, 0>>
    [] accel = "F5" -> <<65474, 0>>
    [] accel = "F6" -> <<65475, 0>>
    [] accel = "F7" -> <<65476, 0>>
    [] accel = "F8" -> <<65477, 0>>
    [] accel = "F9" -> <<65478, 0>>
    [] accel = "<Ctrl>O" -> <<111, 4>>
    [] accel = "<Ctrl>G" -> <<103, 4>>
    [] accel = "<Ctrl>R" -> <<114, 4>>

\* Gtk.accelerator_get_label: the text shown for a (keyval, mask)
accelerator_get_label(b) ==
  CASE b = <<0, 0>> -> ""
    [] b = <<65472, 0>> -> "F3"
    [] b = <<65473, 0>> -> "F4"
    [] b = <<65474, 0>> -> "F5"
    [] b = <<65475, 0>> -> "F6"
    [] b = <<65476, 0>> -> "F7"
    [] b = <<65477, 0>> -> "F8"
    [] b = <<65478, 0>> -> "F9"
    [] b = <<111, 4>> -> "Ctrl+O"
    [] b = <<103, 4>> -> "Ctrl+G"
    [] b = <<114, 4>> -> "Ctrl+R"

ShowHidePath == "<Actions>/ShellActions/Show Hide Extra Pane"

NextPanePath == "<Actions>/ShellActions/SplitViewNextPane"

OpenPath == "<Actions>/DirViewActions/Open"

ReloadPath == "<Actions>/ShellActions/Reload"

\* The action paths of the host's accelerator map: the three the program
\* names and one it leaves alone.
AccelPaths == {ShowHidePath, NextPanePath, OpenPath, ReloadPath}

\* The host's bindings before the program touches them (the table of the
\* header comment: F3 Show/Hide Extra Pane, F6 Switch Between Panes,
\* Ctrl+O Open File, Ctrl+R Reload).
HostDefaults ==
  [p \in AccelPaths |->
     CASE p = ShowHidePath -> accelerator_parse("F3")
       [] p = NextPanePath -> accelerator_parse("F6")
       [] p = OpenPath     -> accelerator_parse("<Ctrl>O")
       [] p = ReloadPath   -> accelerator_parse("<Ctrl>R")]

NoConflicts(map, path, b) == FALSE

\* Another action path holds the binding b.
Conflicts(map, path, b) == \E q \in AccelPaths \ {path} : map[q] = b

\* Gtk.AccelMap.change_entry(path, key, mods, replace).  Gtk changes the
\* entry unless the new accelerator conflicts with another one used in the
\* same accel groups and replace is False ("a change will only occur if all
\* conflicts could be resolved"); the key 0 removes the accelerator and never
\* conflicts.  Whether two action paths share an accel group is a fact of
\* the host: same_group is TRUE when they do.
change_entry(map, path, key, mods, replace, same_group) ==
  IF map[path] = <<key, mods>> THEN map
  ELSE IF key # 0 /\ same_group /\ Conflicts(map, path, <<key, mods>>)
  THEN IF replace
       THEN [q \in AccelPaths |->
               IF q = path THEN <<key, mods>>
               ELSE IF map[q] = <<key, mods>> THEN <<0, 0>> ELSE map[q]]
       ELSE map
  ELSE [map EXCEPT ![path] = <<key, mods>>]

\* ------------------------------------------------------- class WindowAgent
\* lines 152-156: the fields of a WindowAgent before anything was found.  A
\* menu item attribute the constructor has not set is None here.
\* toolbar and menubar are the constructor's locals: the 'NautilusToolbar'
\* it climbed from last (w at line 161) and menubar.
NewAgent(window) ==
  [window |-> window, main_paned |-> None, loc_entry1 |-> None, loc_entry2 |-> None,
   copy_menuitem |-> None, move_menuitem |-> None, mkdir_menuitem |-> None,
   delete_menuitem |-> None, toolbar |-> None, menubar |-> None]

ClimbOneStep(t, p) == [raised |-> p = None, p |-> p]

\* lines 161-163: p = w.get_parent(); while not isinstance(p, Gtk.Paned):
\* p = p.get_parent().  None.get_parent() raises AttributeError.
RECURSIVE ClimbToPaned(_, _)
ClimbToPaned(t, p) ==
  IF p = None THEN [raised |-> TRUE, p |-> None]
  ELSE IF IsPaned(t, p) THEN [raised |-> FALSE, p |-> p]
  ELSE ClimbToPaned(t, get_parent(t, p))

\* lines 165, 168: the widgets the first loop calls walker.skip_children() on
Landmarks(t) == {n \in Nodes : get_name(t, n) \in {"NautilusToolbar", "MenuBar"}}

\* lines 158-168: the body of the first loop, for the widgets seq[i..]
RECURSIVE FindLandmarks(_, _, _, _)
FindLandmarks(t, seq, i, acc) ==
  IF i > Len(seq) \/ acc.raised THEN acc
  ELSE
    LET w     == seq[i]
        climb == ClimbToPaned(t, get_parent(t, w))
    IN IF get_name(t, w) = "NautilusToolbar"
       THEN IF climb.raised
            THEN [acc EXCEPT !.raised = TRUE]
            ELSE FindLandmarks(t, seq, i + 1,
                               [acc EXCEPT !.main_paned = climb.p, !.toolbar = w])
       ELSE IF get_name(t, w) = "MenuBar"
       THEN FindLandmarks(t, seq, i + 1, [acc EXCEPT !.menubar = w])
       ELSE FindLandmarks(t, seq, i + 1, acc)

\* The first widget of seq with the given name, None when there is none: a
\* loop that stops (break, return) at the first match.
FirstNamed(t, seq, name) ==
  IF \E i \in DOMAIN seq : get_name(t, seq[i]) = name
  THEN seq[CHOOSE i \in DOMAIN seq :
             /\ get_name(t, seq[i]) = name
             /\ \A j \in DOMAIN seq : get_name(t, seq[j]) = name => i <= j]
  ELSE None

\* WindowAgent.find_loc_entry
find_loc_entry(t, widget) ==
  FirstNamed(t, Drain(t, walk(widget, TRUE), {}, <<>>), "NautilusLocationEntry")

\* lines 200-202: connect(accel, func) on the window's accel group; func is
\* a bound method of the agent self.
Connection(accel, func, self) ==
  [key |-> accelerator_parse(accel)[1], mods |-> accelerator_parse(accel)[2],
   func |-> func, self |-> self]

\* line 229: w.add(item).  Only a Gtk.Container has add.
CanAdd(t, w) == IsContainer(t, w)

\* lines 213-232: the body of the last loop, for the widgets seq[i..].  acc
\* holds the agent, the connections made on the accel group and the widgets
\* that were given a 'Keyboard Shortcuts' item.  (The item added to an
\* 'Edit' widget is walked too; its name matches no branch.)
RECURSIVE ConnectMenuItems(_, _, _, _)
ConnectMenuItems(t, seq, i, acc) ==
  IF i > Len(seq) \/ acc.raised THEN acc
  ELSE
    LET w    == seq[i]
        name == get_name(t, w)
    IN CASE name = "Copy to next pane" ->
              ConnectMenuItems(t, seq, i + 1,
                [acc EXCEPT !.connects = Append(@, Connection("F5", "on_copy", acc.self)),
                            !.agent.copy_menuitem = w])
         [] name = "Move to next pane" ->
              ConnectMenuItems(t, seq, i + 1,
                [acc EXCEPT !.connects = Append(@, Connection("F6", "on_move", acc.self)),
                            !.agent.move_menuitem = w])
         [] name = "New Folder" ->
              ConnectMenuItems(t, seq, i + 1,
                [acc EXCEPT !.connects = Append(@, Connection("F7", "on_mkdir", acc.self)),
                            !.agent.mkdir_menuitem = w])
         [] name = "Trash" ->
              ConnectMenuItems(t, seq, i + 1,
                [acc EXCEPT !.connects = Append(@, Connection("F8", "on_delete", acc.self)),
                            !.agent.delete_menuitem = w])
         [] name = "Edit" ->
              IF CanAdd(t, w)
              THEN ConnectMenuItems(t, seq, i + 1, [acc EXCEPT !.kb_items = Append(@, w)])
              ELSE [acc EXCEPT !.raised = TRUE]
         [] OTHER -> ConnectMenuItems(t, seq, i + 1, acc)

\* lines 170-176: the widget the constructor activates, None when the menu
\* bar has no 'Show Hide Extra Pane'
ShowHideItem(t, menubar) ==
  FirstNamed(t, Drain(t, walk(menubar, TRUE), {}, <<>>), "Show Hide Extra Pane")

\* lines 187-196: the accelerator map after each of the three changes, in
\* order
RemapSteps(map, same_group) ==
  LET m1 == change_entry(map, ShowHidePath, 0, 0, FALSE, same_group)
      m2 == change_entry(m1, NextPanePath, 0, 0, FALSE, same_group)
  IN <<m1, m2, change_entry(m2, OpenPath, accelerator_parse("F3")[1],
                            accelerator_parse("F3")[2], FALSE, same_group)>>

\* lines 187-196: the accelerator map the three changes leave
RemapDefaults(map, same_group) == RemapSteps(map, same_group)[3]

LocationHandlersAlways(agent, self) ==
  <<Connection("<Ctrl>O", "on_terminal", self), Connection("<Ctrl>G", "on_git", self)>>

LocationHandlersForOne(agent, self) ==
  IF agent.loc_entry1 # None \/ agent.loc_entry2 # None
  THEN <<Connection("<Ctrl>O", "on_terminal", self), Connection("<Ctrl>G", "on_git", self)>>
  ELSE <<>>

\* lines 206-208
LocationHandlers(agent, self) ==
  IF agent.loc_entry1 # None /\ agent.loc_entry2 # None
  THEN <<Connection("<Ctrl>O", "on_terminal", self), Connection("<Ctrl>G", "on_git", self)>>
  ELSE <<>>

\* WindowAgent.__init__(window) for the agent self, on the tree t and the
\* accelerator map `map`.  The result tells whether the constructor raised
\* and what it did until then: the agent's fields, the menu items it
\* activated, the accelerator map it left, the connections it made on the
\* window's accel group and the widgets it added a menu item to.
WindowAgent(t, window, self, map, same_group) ==
  LET found == FindLandmarks(t, Drain(t, walk(window, FALSE), Landmarks(t), <<>>), 1,
                             [main_paned |-> None, toolbar |-> None, menubar |-> None,
                              raised |-> FALSE])
      toggle == IF found.menubar # None THEN ShowHideItem(t, found.menubar) ELSE None
      a1 == [NewAgent(window) EXCEPT !.main_paned = found.main_paned,
                                     !.toolbar = found.toolbar, !.menubar = found.menubar]
      a2 == IF a1.main_paned # None
            THEN [a1 EXCEPT !.loc_entry1 = find_loc_entry(t, get_child1(t, a1.main_paned)),
                            !.loc_entry2 = find_loc_entry(t, get_child2(t, a1.main_paned))]
            ELSE a1
      menu == ConnectMenuItems(t,
                IF found.menubar # None
                THEN Drain(t, walk(found.menubar, TRUE), {}, <<>>) ELSE <<>>,
                1,
                [agent |-> a2, self |-> self, raised |-> FALSE, kb_items |-> <<>>,
                 connects |-> <<Connection("F4", "on_edit", self)>>
                              \o LocationHandlers(a2, self)])
  IN IF found.raised
     THEN [raised |-> TRUE, agent |-> NewAgent(window),
           activated |-> <<>>, accel_map |-> map, accel_steps |-> <<>>,
           connects |-> <<>>, kb_items |-> <<>>]
     ELSE [raised |-> menu.raised, agent |-> menu.agent,
           activated |-> IF toggle # None THEN <<toggle>> ELSE <<>>,
           accel_map |-> RemapDefaults(map, same_group),
           accel_steps |-> RemapSteps(map, same_group),
           connects |-> menu.connects, kb_items |-> menu.kb_items]

\* ------------------------------------------------- the handlers' bodies
DIFF == "meld"

GIT_CLIENT == "gitg"

EDITOR == "gedit"

\* What GConf holds under TERMINAL_KEY on the host.
TerminalExec == "gnome-terminal"

\* subprocess.Popen(argv, cwd=cwd); cwd is "" when the call passes none
Popen(argv, cwd) == [argv |-> argv, cwd |-> cwd]

LocationEntryFirst(t, agent, w) ==
  [raised |-> w = None \/ agent.main_paned = None, entry |-> agent.loc_entry1]

\* WindowAgent.get_location: the loop of lines 306-314 from the widget w.
\* The result is the entry chosen; raised when the loop ends without a
\* break (entry is unbound at line 315) or main_paned is None.
RECURSIVE LocationEntryOf(_, _, _)
LocationEntryOf(t, agent, w) ==
  IF w = None THEN [raised |-> TRUE, entry |-> None]
  ELSE IF agent.main_paned = None THEN [raised |-> TRUE, entry |-> None]
  ELSE IF w = get_child1(t, agent.main_paned) THEN [raised |-> FALSE, entry |-> agent.loc_entry1]
  ELSE IF w = get_child2(t, agent.main_paned) THEN [raised |-> FALSE, entry |-> agent.loc_entry2]
  ELSE LocationEntryOf(t, agent, get_parent(t, w))

\* WindowAgent.get_location with the focus widget and the texts of the
\* host's entries: line 315, entry.get_text()
get_location(t, agent, focus, texts) ==
  LET r == LocationEntryOf(t, agent, focus)
  IN IF r.raised \/ r.entry = None
     THEN [raised |-> TRUE, location |-> ""]
     ELSE [raised |-> FALSE, location |-> texts[r.entry]]

\* line 253-254: the condition under which get_selection returns []
SelectionIsEmpty(t, focus) ==
  ~(Kind(t, focus) = "TreeView") /\ get_name(t, get_parent(t, focus)) = "NautilusListView"

\* WindowAgent.get_selection with the focus widget; rows are the URIs of the
\* rows selected in a focused tree view, files tells whether the objects in
\* column 0 of its model have get_uri.  A widget that is no Gtk.TreeView has
\* no get_selection.
get_selection(t, focus, rows, files) ==
  IF focus = None THEN [raised |-> TRUE, uris |-> <<>>]
  ELSE IF Kind(t, focus) # "TreeView" /\ get_parent(t, focus) = None
  THEN [raised |-> TRUE, uris |-> <<>>]
  ELSE IF SelectionIsEmpty(t, focus) THEN [raised |-> FALSE, uris |-> <<>>]
  ELSE IF Kind(t, focus) # "TreeView" THEN [raised |-> TRUE, uris |-> <<>>]
  ELSE IF rows # <<>> /\ ~files THEN [raised |-> TRUE, uris |-> <<>>]
  ELSE [raised |-> FALSE, uris |-> rows]

\* ------------------------------------------------------------------- state
MaxWindows == 2

MaxAttempts == 2

MaxDialogs == 2

Windows == 1..MaxWindows

DesktopUri == "x-nautilus-desktop:///"

Uris == {DesktopUri, "file:///home"}

Texts == {"/home/a", "/home/b"}

VARIABLES
  tree,             \* the widget tree of each of the host's windows
  shared_groups,    \* the host's actions are attached to the same accel groups
  file_items,       \* the menu items get_file_items returned last, <<>> for None
  wtop,             \* the widget a consumer created its walk on
  walker,           \* the consumer's walk object
  yielded,          \* the widgets the consumer has received from it, in order
  skipped,          \* the widgets after which the consumer called skip_children()
  exhausted,        \* the consumer has seen StopIteration
  open,             \* the windows the host has opened and not destroyed
  accel_map,        \* Gtk.AccelMap: action path -> (keyval, mask)
  accel_group,      \* per window: the connections on its accel group, in order
  destroy_handlers, \* per window: the callbacks connected to 'destroy'
  agents,           \* per window: the WindowAgent objects constructed for it
  window_agents,    \* WidgetProvider._window_agents: window -> index in agents, None without entry
  toggled,          \* per window: the 'Show Hide Extra Pane' items activated
  kb_items,         \* per window: the widgets given a 'Keyboard Shortcuts' item
  shortcuts_dialog, \* the global shortcuts_dialog: a dialog or None
  dialogs,          \* the KeyboardShortcutsDialog objects not destroyed
  created,          \* the number of KeyboardShortcutsDialog objects constructed
  running,          \* a show_keyboard_shortcuts_dialog call is inside run()
  event             \* the last call the host made, its inputs and what it did

walkVars == <<wtop, walker, yielded, skipped, exhausted>>

appVars == <<open, accel_map, accel_group, destroy_handlers, agents, window_agents,
             toggled, kb_items, shortcuts_dialog, dialogs, created, running, event>>

vars == <<tree, shared_groups, file_items, walkVars, appVars>>

NoTexts == [n \in Nodes |-> ""]

NoEvent ==
  [op |-> "none", window |-> None, uri |-> "", focus |-> None, texts |-> NoTexts,
   self |-> None, ret |-> "", raised |-> FALSE, escaped |-> FALSE,
   launched |-> <<>>, activated |-> <<>>, constructed |-> FALSE, dialog |-> None,
   path |-> "", binding |-> <<0, 0>>, table |-> <<>>, tables |-> <<>>,
   files |-> <<>>]

AppIdle ==
  /\ accel_map = HostDefaults
  /\ accel_group = [w \in Windows |-> <<>>]
  /\ destroy_handlers = [w \in Windows |-> 0]
  /\ agents = [w \in Windows |-> <<>>]
  /\ window_agents = [w \in Windows |-> None]
  /\ toggled = [w \in Windows |-> <<>>]
  /\ kb_items = [w \in Windows |-> <<>>]
  /\ shortcuts_dialog = None
  /\ dialogs = {}
  /\ created = 0
  /\ running = FALSE
  /\ event = NoEvent

\* ------------------------------------------- a consumer iterating a walk
WalkPalette == {"box", "item", "leaf"}

InitWalk ==
  /\ tree \in TreesOver(WalkPalette)
  /\ shared_groups = FALSE
  /\ file_items = <<>>
  /\ open = {}
  /\ wtop \in Nodes
  /\ \E vs \in BOOLEAN : walker = walk(wtop, vs)
  /\ yielded = <<>>
  /\ skipped = {}
  /\ exhausted = FALSE
  /\ AppIdle

\* for w in walker: the consumer asks for the next widget
WalkNext ==
  /\ ~exhausted
  /\ LET r == Resume(tree, walker)
     IN /\ walker' = r.wk
        /\ yielded' = IF r.out = None THEN yielded ELSE Append(yielded, r.out)
        /\ exhausted' = (r.out = None)
  /\ UNCHANGED <<tree, shared_groups, file_items, wtop, skipped, appVars>>

\* walker.skip_children() on the widget received last
WalkSkipChildren ==
  /\ ~exhausted
  /\ yielded # <<>>
  /\ ~walker.skip_children
  /\ walker' = skip_children(walker)
  /\ skipped' = skipped \cup {yielded[Len(yielded)]}
  /\ UNCHANGED <<tree, shared_groups, file_items, wtop, yielded, exhausted, appVars>>

NextWalk == WalkNext \/ WalkSkipChildren

SpecWalk == InitWalk /\ [][NextWalk]_vars

\* ------------------------------------------------------- the application
\* The windows of one run are built from the same UI definition: they have
\* the same tree.  A run with one window has a tree over one of the
\* palettes; a run with more windows has a tree with a menu bar and menus.
Palettes ==
  { {"box", "paned", "toolbar", "locentry"},
    {"box", "paned", "toolbar", "menubar", "item"},
    {"menubar", "item", "menu", "showhide", "editlbl"},
    {"menubar", "item", "menu", "copy", "move"},
    {"menubar", "item", "menu", "mkdir", "trash"},
    {"box", "listview", "treeview", "leaf"} }

WindowTrees == UNION {GtkTreesOver(pal) : pal \in Palettes}

SharedTrees == GtkTreesOver({"menubar", "item", "edit"})

Init ==
  /\ \/ tree \in WindowTrees /\ open = {1}
     \/ tree \in SharedTrees /\ open = Windows
  /\ shared_groups \in BOOLEAN
  /\ file_items = <<>>
  /\ wtop = None
  /\ walker = walk(None, FALSE)
  /\ yielded = <<>>
  /\ skipped = {}
  /\ exhausted = FALSE
  /\ AppIdle

\* Gtk.Window.get_focus: a widget of the window (one reached from it through
\* children) or None.
RECURSIVE InWindow(_, _)
InWindow(t, n) == n = 1 \/ (~t.sub[n] /\ InWindow(t, t.parent[n]))

FocusWidgets(t) == {n \in Nodes : InWindow(t, n)} \cup {None}

\* The texts the host's location entries may hold.
TextFns(t) ==
  {f \in [Nodes -> Texts \cup {""}] :
     \A n \in Nodes : (get_name(t, n) = "NautilusLocationEntry") <=> (f[n] # "")}

AgentNeverFound(registry, window) == FALSE

\* lines 358-359: agent = self._window_agents.get(window); agent != None
AgentFound(registry, window) == registry[window] # None

\* WidgetProvider.get_widget(uri, window)
get_widget(uri, window) ==
  /\ window \in open
  /\ IF uri = DesktopUri \/ AgentFound(window_agents, window)
     THEN /\ event' = [NoEvent EXCEPT !.op = "get_widget", !.uri = uri, !.window = window,
                                      !.ret = "None"]
          /\ UNCHANGED <<open, accel_map, accel_group, destroy_handlers, agents,
                         window_agents, toggled, kb_items, shortcuts_dialog, dialogs,
                         created, running>>
     ELSE /\ Len(agents[window]) < MaxAttempts
          /\ \E self \in {Len(agents[window]) + 1} :
             \E r \in {WindowAgent(tree, window, self, accel_map, shared_groups)} :
                  /\ destroy_handlers' = [destroy_handlers EXCEPT ![window] = @ + 1]
                  /\ agents' = [agents EXCEPT ![window] = Append(@, r.agent)]
                  /\ toggled' = [toggled EXCEPT ![window] = @ \o r.activated]
                  /\ accel_map' = r.accel_map
                  /\ accel_group' = [accel_group EXCEPT ![window] = @ \o r.connects]
                  /\ kb_items' = [kb_items EXCEPT ![window] = @ \o r.kb_items]
                  /\ window_agents' = IF r.raised THEN window_agents
                                      ELSE [window_agents EXCEPT ![window] = self]
                  /\ event' = [NoEvent EXCEPT !.op = "get_widget", !.uri = uri,
                                 !.window = window, !.ret = "None", !.raised = r.raised,
                                 !.activated = r.activated, !.constructed = TRUE,
                                 !.tables = r.accel_steps]
          /\ UNCHANGED <<open, shortcuts_dialog, dialogs, created, running>>
  /\ UNCHANGED <<tree, shared_groups, file_items, walkVars>>

\* The host destroys a window: the callbacks connected at line 361 run, each
\* one self._window_agents.pop(w); a pop without an entry raises KeyError,
\* which the host's signal dispatch reports and drops.  A dialog created
\* with DESTROY_WITH_PARENT on the window goes with it.
window_destroy(window) ==
  /\ window \in open
  /\ open' = open \ {window}
  /\ window_agents' = IF destroy_handlers[window] > 0
                      THEN [window_agents EXCEPT ![window] = None] ELSE window_agents
  /\ dialogs' = {d \in dialogs : d.parent # window}
  /\ accel_group' = [accel_group EXCEPT ![window] = <<>>]
  /\ event' = [NoEvent EXCEPT !.op = "destroy", !.window = window,
                 !.raised = \/ destroy_handlers[window] > 1
                            \/ destroy_handlers[window] = 1 /\ window_agents[window] = None]
  /\ UNCHANGED <<tree, shared_groups, file_items, walkVars, accel_map, destroy_handlers, agents,
                 toggled, kb_items, shortcuts_dialog, created, running>>

\* The accel group of the window runs the first closure connected for a key
\* combination; the closure returns True, which ends the dispatch.
Dispatched(window, func) ==
  {i \in DOMAIN accel_group[window] :
     /\ accel_group[window][i].func = func
     /\ \A j \in 1..(i - 1) :
          <<accel_group[window][j].key, accel_group[window][j].mods>>
            # <<accel_group[window][i].key, accel_group[window][i].mods>>}

SelfOf(window, i) == agents[window][accel_group[window][i].self]

\* What the body of a with statement did: whether it raised, the processes
\* it launched and the menu items it activated before that.
Raised == [raised |-> TRUE, launched |-> <<>>, activated |-> <<>>]

Activates(menuitem) ==
  IF menuitem = None THEN Raised
  ELSE [raised |-> FALSE, launched |-> <<>>, activated |-> <<menuitem>>]

Launches(process) == [raised |-> FALSE, launched |-> <<process>>, activated |-> <<>>]

Nothing == [raised |-> FALSE, launched |-> <<>>, activated |-> <<>>]

CatchNothing(body) ==
  [logged |-> FALSE, escaped |-> body.raised,
   launched |-> body.launched, activated |-> body.activated]

\* catch_all (lines 92-97): what the body raised is logged and goes no further
catch_all(body) ==
  [logged |-> body.raised, escaped |-> FALSE,
   launched |-> body.launched, activated |-> body.activated]

\* A key handler: with catch_all(): body, then return True.  An exception
\* that escaped the with statement would leave the handler instead.
Handled(op, window, self, focus, texts, body) ==
  [NoEvent EXCEPT !.op = op, !.window = window, !.self = self, !.focus = focus,
                  !.texts = texts,
                  !.ret = IF catch_all(body).escaped THEN "raise" ELSE "True",
                  !.raised = catch_all(body).logged,
                  !.escaped = catch_all(body).escaped,
                  !.launched = catch_all(body).launched,
                  !.activated = catch_all(body).activated]

HandlerFrame ==
  UNCHANGED <<tree, shared_groups, file_items, walkVars, open, accel_map, accel_group,
              destroy_handlers, agents,
              window_agents, toggled, kb_items, shortcuts_dialog, dialogs, created,
              running>>

\* WindowAgent.on_copy; ok is the answer to show_dialog
on_copy(window) ==
  /\ window \in open
  /\ \E i \in Dispatched(window, "on_copy"), ok \in BOOLEAN :
       event' = Handled("on_copy", window, accel_group[window][i].self, None, NoTexts,
                        IF ok THEN Activates(SelfOf(window, i).copy_menuitem) ELSE Nothing)
  /\ HandlerFrame

\* WindowAgent.on_move
on_move(window) ==
  /\ window \in open
  /\ \E i \in Dispatched(window, "on_move"), ok \in BOOLEAN :
       event' = Handled("on_move", window, accel_group[window][i].self, None, NoTexts,
                        IF ok THEN Activates(SelfOf(window, i).move_menuitem) ELSE Nothing)
  /\ HandlerFrame

\* WindowAgent.on_mkdir
on_mkdir(window) ==
  /\ window \in open
  /\ \E i \in Dispatched(window, "on_mkdir") :
       event' = Handled("on_mkdir", window, accel_group[window][i].self, None, NoTexts,
                        Activates(SelfOf(window, i).mkdir_menuitem))
  /\ HandlerFrame

\* WindowAgent.on_delete
on_delete(window) ==
  /\ window \in open
  /\ \E i \in Dispatched(window, "on_delete"), ok \in BOOLEAN :
       event' = Handled("on_delete", window, accel_group[window][i].self, None, NoTexts,
                        IF ok THEN Activates(SelfOf(window, i).delete_menuitem) ELSE Nothing)
  /\ HandlerFrame

\* The rows the host's focus widget may have selected: no widget but a
\* tree view has a selection.
Selections(t, focus) ==
  IF focus # None /\ Kind(t, focus) = "TreeView"
  THEN {<<>>, <<"file:///home/a/x">>} ELSE {<<>>}

\* WindowAgent.on_edit; focus is window.get_focus(), rows and files describe
\* the selection of a focused tree view
on_edit(window) ==
  /\ window \in open
  /\ \E i \in Dispatched(window, "on_edit"), focus \in FocusWidgets(tree),
        files \in BOOLEAN :
       \E rows \in Selections(tree, focus) :
       LET sel == get_selection(tree, focus, rows, files)
       IN event' = Handled("on_edit", window, accel_group[window][i].self, focus, NoTexts,
                           IF sel.raised THEN Raised
                           ELSE Launches(Popen(<<EDITOR>> \o sel.uris, "")))
  /\ HandlerFrame

\* WindowAgent.on_terminal
on_terminal(window) ==
  /\ window \in open
  /\ \E i \in Dispatched(window, "on_terminal"), focus \in FocusWidgets(tree),
        texts \in TextFns(tree) :
       LET loc == get_location(tree, SelfOf(window, i), focus, texts)
       IN event' = Handled("on_terminal", window, accel_group[window][i].self, focus, texts,
                           IF loc.raised THEN Raised
                           ELSE Launches(Popen(<<TerminalExec>>, loc.location)))
  /\ HandlerFrame

\* WindowAgent.on_git
on_git(window) ==
  /\ window \in open
  /\ \E i \in Dispatched(window, "on_git"), focus \in FocusWidgets(tree),
        texts \in TextFns(tree) :
       LET loc == get_location(tree, SelfOf(window, i), focus, texts)
       IN event' = Handled("on_git", window, accel_group[window][i].self, focus, texts,
                           IF loc.raised THEN Raised
                           ELSE Launches(Popen(<<GIT_CLIENT>>, loc.location)))
  /\ HandlerFrame

\* KeyboardShortcutsDialog.add_accel over Gtk.AccelMap.foreach: the rows of
\* the list store, action path -> label
create_shortcut_list(map) == [p \in AccelPaths |-> accelerator_get_label(map[p])]

DialogNeverOpen(dialog) == FALSE

\* line 334: if shortcuts_dialog
DialogIsOpen(dialog) == dialog # None

\* WindowAgent.show_keyboard_shortcuts_dialog up to shortcuts_dialog.run():
\* the 'Keyboard Shortcuts' item of the window was activated
show_keyboard_shortcuts_dialog(window) ==
  /\ window \in open
  /\ kb_items[window] # <<>>
  /\ IF DialogIsOpen(shortcuts_dialog)
     THEN /\ event' = [NoEvent EXCEPT !.op = "show_keyboard_shortcuts_dialog",
                                      !.window = window, !.dialog = shortcuts_dialog]
          /\ UNCHANGED <<shortcuts_dialog, dialogs, created, running>>
     ELSE /\ created < MaxDialogs
          /\ created' = created + 1
          /\ shortcuts_dialog' = created + 1
          /\ dialogs' = dialogs \cup {[id |-> created + 1, parent |-> window,
                                       accel_store |-> create_shortcut_list(accel_map)]}
          /\ running' = TRUE
          /\ event' = [NoEvent EXCEPT !.op = "show_keyboard_shortcuts_dialog",
                                      !.window = window, !.dialog = created + 1,
                                      !.constructed = TRUE]
  /\ UNCHANGED <<tree, shared_groups, file_items, walkVars, open, accel_map, accel_group,
                 destroy_handlers,
                 agents, window_agents, toggled, kb_items>>

\* shortcuts_dialog.run() returns (the user closed the dialog, or it was
\* destroyed): lines 341-342
dialog_closed ==
  /\ running
  /\ dialogs' = {d \in dialogs : d.id # shortcuts_dialog}
  /\ shortcuts_dialog' = None
  /\ running' = FALSE
  /\ event' = [NoEvent EXCEPT !.op = "dialog_closed", !.dialog = shortcuts_dialog]
  /\ UNCHANGED <<tree, shared_groups, file_items, walkVars, open, accel_map, accel_group,
                 destroy_handlers,
                 agents, window_agents, toggled, kb_items, created>>

\* The rows the user edits and the key combinations the user types.
EditedPaths == {OpenPath, ReloadPath}

EditBindings == {accelerator_parse("F3"), accelerator_parse("F9")}

\* KeyboardShortcutsDialog.accel_edited on the row of the action path
accel_edited(path, key, mods) ==
  /\ \E d \in dialogs : d.id = shortcuts_dialog
  /\ accel_map' = change_entry(accel_map, path, key, mods, FALSE, shared_groups)
  /\ dialogs' = {IF d.id = shortcuts_dialog
                 THEN [d EXCEPT !.accel_store[path] = accelerator_get_label(<<key, mods>>)]
                 ELSE d : d \in dialogs}
  /\ event' = [NoEvent EXCEPT !.op = "accel_edited", !.path = path,
                               !.binding = <<key, mods>>, !.table = accel_map,
                               !.dialog = shortcuts_dialog]
  /\ UNCHANGED <<tree, shared_groups, file_items, walkVars, open, accel_group,
                 destroy_handlers, agents, window_agents, toggled, kb_items,
                 shortcuts_dialog, created, running>>

Next ==
  \/ \E uri \in Uris, window \in Windows : get_widget(uri, window)
  \/ \E window \in Windows : window_destroy(window)
  \/ \E window \in Windows : on_copy(window)
  \/ \E window \in Windows : on_move(window)
  \/ \E window \in Windows : on_mkdir(window)
  \/ \E window \in Windows : on_delete(window)
  \/ \E window \in Windows : on_edit(window)
  \/ \E window \in Windows : on_terminal(window)
  \/ \E window \in Windows : on_git(window)
  \/ \E window \in Windows : show_keyboard_shortcuts_dialog(window)
  \/ dialog_closed
  \/ \E path \in EditedPaths, b \in EditBindings : accel_edited(path, b[1], b[2])

Spec == Init /\ [][Next]_vars

\* ------------------------------------------------ class CompareMenuProvider
\* A file of the host (Nautilus.FileInfo) is its URI scheme and the path of
\* its URI, percent-encoded, as a sequence of characters.
MaxFiles == 3

Schemes == {"file", "smb"}

Paths == {<<"/", "a">>, <<"/", "b", "%", "2", "0">>, <<"/", "%", "a">>}

Files == [scheme : Schemes, path : Paths]

SchemeChars(scheme) ==
  IF scheme = "file" THEN <<"f", "i", "l", "e">> ELSE <<"s", "m", "b">>

\* file_info.get_uri()
get_uri(f) == SchemeChars(f.scheme) \o <<":", "/", "/">> \o f.path

\* f.get_uri_scheme()
get_uri_scheme(f) == f.scheme

HexDigits == {"0", "2", "a"}

\* urllib.unquote: %xy with two hex digits becomes the character with that
\* code (written "x" followed by the digits); any other % stays
RECURSIVE unquote(_)
unquote(s) ==
  IF s = <<>> THEN <<>>
  ELSE IF s[1] = "%" /\ Len(s) >= 3 /\ s[2] \in HexDigits /\ s[3] \in HexDigits
  THEN <<"x" \o s[2] \o s[3]>> \o unquote(SubSeq(s, 4, Len(s)))
  ELSE <<s[1]>> \o unquote(Tail(s))

\* get_filename (lines 85-86): urllib.unquote(file_info.get_uri()[7:])
get_filename(f) == unquote(SubSeq(get_uri(f), 8, Len(get_uri(f))))

has_any_scheme(f) == TRUE

\* has_file_scheme (lines 88-89)
has_file_scheme(f) == get_uri_scheme(f) = "file"

\* The value CompareMenuProvider.get_file_items returns: no item (<<>> for
\* the None of a bare return), or a list of one Nautilus.MenuItem with
\* on_compare and the files connected to it
FileItems(files) ==
  IF Len(files) # 2 THEN <<>>
  ELSE IF ~has_file_scheme(files[1]) \/ ~has_file_scheme(files[2]) THEN <<>>
  ELSE <<[name |-> "SimpleMenuExtension::Compare_Files", label |-> "Compare...",
          files |-> files]>>

Selection == UNION {[1..n -> Files] : n \in 0..MaxFiles}

InitCompare ==
  /\ tree = [parent |-> [n \in Nodes |-> n - 1], sub |-> [n \in Nodes |-> FALSE],
             role |-> [n \in Nodes |-> IF n = 1 THEN "window" ELSE "box"]]
  /\ shared_groups = FALSE
  /\ file_items = <<>>
  /\ open = {}
  /\ wtop = None
  /\ walker = walk(None, FALSE)
  /\ yielded = <<>>
  /\ skipped = {}
  /\ exhausted = FALSE
  /\ AppIdle

\* CompareMenuProvider.get_file_items(window, files): the host asks for the
\* items of the context menu of a selection
get_file_items(files) ==
  /\ file_items' = FileItems(files)
  /\ event' = [NoEvent EXCEPT !.op = "get_file_items", !.files = files]
  /\ UNCHANGED <<tree, shared_groups, walkVars, open, accel_map, accel_group,
                 destroy_handlers, agents, window_agents, toggled, kb_items,
                 shortcuts_dialog, dialogs, created, running>>

\* CompareMenuProvider.on_compare(menu, files): the user activates the item
\* the host got last
on_compare ==
  /\ file_items # <<>>
  /\ event' = [NoEvent EXCEPT
                 !.op = "on_compare", !.files = file_items[1].files,
                 !.launched = <<Popen(<<DIFF, get_filename(file_items[1].files[1]),
                                        get_filename(file_items[1].files[2])>>, "")>>]
  /\ UNCHANGED <<tree, shared_groups, file_items, walkVars, open, accel_map, accel_group,
                 destroy_handlers, agents, window_agents, toggled, kb_items,
                 shortcuts_dialog, dialogs, created, running>>

NextCompare ==
  \/ \E files \in Selection : get_file_items(files)
  \/ on_compare

SpecCompare == InitCompare /\ [][NextCompare]_vars

\* ------------------------------------------------------------ the claims
\* m is n or lies below n, through children and, with subs, through submenus.
RECURSIVE IsUnder(_, _, _, _)
IsUnder(t, m, n, subs) ==
  /\ m # None
  /\ \/ m = n
     \/ (subs \/ ~t.sub[m]) /\ IsUnder(t, t.parent[m], n, subs)

Below(t, m, n, subs) == m # n /\ IsUnder(t, m, n, subs)

Range(s) == {s[i] : i \in DOMAIN s}

NoDuplicates(s) == \A i, j \in DOMAIN s : s[i] = s[j] => i = j

RECURSIVE Concat(_)
Concat(ss) == IF ss = <<>> THEN <<>> ELSE Head(ss) \o Concat(Tail(ss))

\* Depth-first pre-order as the specification words it: a node, then the
\* subtrees of its children in order, then the subtree of its submenu;
\* nothing below a node of the set pruned.
RECURSIVE PreOrder(_, _, _, _)
PreOrder(t, n, subs, pruned) ==
  IF n = None THEN <<>>
  ELSE IF n \in pruned THEN <<n>>
  ELSE <<n>>
       \o Concat([i \in 1..Cardinality(ChildSet(t, n)) |->
                    PreOrder(t, SortedSeq(ChildSet(t, n))[i], subs, pruned)])
       \o (IF subs THEN PreOrder(t, get_submenu(t, n), subs, pruned) ELSE <<>>)

\* C1: a consumer that never calls skip_children has, once the walk is
\* exhausted, received every node reachable from the root through children
\* (and, with visit_submenu, submenus) exactly once and no other node, each
\* node before its descendants, and the subtrees of a node's children before
\* the subtree of the node's submenu.
C1_WalkVisitsAllInPreOrder ==
  (exhausted /\ skipped = {}) =>
    /\ Range(yielded) = {m \in Nodes : IsUnder(tree, m, wtop, walker.visit_submenu)}
    /\ NoDuplicates(yielded)
    /\ \A i, j \in DOMAIN yielded :
         Below(tree, yielded[j], yielded[i], TRUE) => i < j
    /\ \A n \in Nodes : \A i, j \in DOMAIN yielded :
         (/\ \E c \in ChildSet(tree, n) : IsUnder(tree, yielded[i], c, TRUE)
          /\ get_submenu(tree, n) # None
          /\ IsUnder(tree, yielded[j], get_submenu(tree, n), TRUE)) => i < j

\* A finished walk with submenus over a whole window in which some menu
\* item has both a child and a submenu, the submenu being the older widget.
C1_Witness ==
  /\ exhausted /\ skipped = {} /\ walker.visit_submenu /\ wtop = 1
  /\ Len(yielded) = MaxNodes
  /\ \E n \in Nodes : /\ get_submenu(tree, n) # None
                      /\ \E c \in ChildSet(tree, n) : get_submenu(tree, n) < c

\* C2: when the consumer called skip_children after receiving the nodes of
\* `skipped`, the exhausted walk has yielded the pre-order sequence without
\* the nodes below a skipped node, in the same order, and nothing else; the
\* request does not outlive the node it was made on.
C2_SkipSuppressesExactlyDescendants ==
  exhausted =>
    /\ yielded = PreOrder(tree, wtop, walker.visit_submenu, skipped)
    /\ \A m \in Nodes :
         (/\ IsUnder(tree, m, wtop, walker.visit_submenu)
          /\ ~\E s \in skipped : Below(tree, m, s, walker.visit_submenu))
         => m \in Range(yielded)
    /\ ~walker.skip_children

\* A finished walk in which a skipped node has a descendant the walk would
\* have reached, and a node with a child of its own was yielded after it.
C2_Witness ==
  /\ exhausted
  /\ \E i \in DOMAIN yielded :
       /\ yielded[i] \in skipped
       /\ \E m \in Nodes : Below(tree, m, yielded[i], walker.visit_submenu)
       /\ \E j \in DOMAIN yielded : j > i /\ ~Below(tree, yielded[j], yielded[i], TRUE)

\* ------------------------------------------- the claims on the application
\* The window has an entry in the registry: its initialization completed.
Registered(w) == window_agents[w] # None

AgentOf(w) == agents[w][window_agents[w]]

\* The nodes the discovery walk of a window visits: pre-order through
\* children, nothing below a node named as a landmark.
Visited(t) ==
  PreOrder(t, 1, FALSE, {n \in Nodes : get_name(t, n) \in {"NautilusToolbar", "MenuBar"}})

\* n is the first node of seq with the name, None when seq has none.
IsFirstMatch(t, seq, name, n) ==
  IF \A i \in DOMAIN seq : get_name(t, seq[i]) # name
  THEN n = None
  ELSE \E i \in DOMAIN seq :
         /\ seq[i] = n
         /\ get_name(t, n) = name
         /\ \A j \in 1..(i - 1) : get_name(t, seq[j]) # name

PanedAbove(t, n) == {p \in Nodes : IsPaned(t, p) /\ Below(t, n, p, FALSE)}

\* The nearest Gtk.Paned proper ancestor of n, None when it has none.
NearestPaned(t, n) ==
  IF PanedAbove(t, n) = {} THEN None
  ELSE CHOOSE p \in PanedAbove(t, n) : \A q \in PanedAbove(t, n) : IsUnder(t, p, q, FALSE)

\* C3: in a window whose initialization completed, the toolbar landmark and
\* the menu-bar landmark are the first nodes with their names among the nodes
\* the discovery walk visits, and the location entry of each pane the first
\* one in the pre-order of the pane's child; None where there is no such node.
C3_DiscoveryResultsInFirstMatch ==
  \A w \in Windows : Registered(w) =>
    /\ IsFirstMatch(tree, Visited(tree), "NautilusToolbar", AgentOf(w).toolbar)
    /\ IsFirstMatch(tree, Visited(tree), "MenuBar", AgentOf(w).menubar)
    /\ AgentOf(w).main_paned # None =>
         /\ IsFirstMatch(tree, PreOrder(tree, get_child1(tree, AgentOf(w).main_paned), TRUE, {}),
                         "NautilusLocationEntry", AgentOf(w).loc_entry1)
         /\ IsFirstMatch(tree, PreOrder(tree, get_child2(tree, AgentOf(w).main_paned), TRUE, {}),
                         "NautilusLocationEntry", AgentOf(w).loc_entry2)

\* C4 as stated: in a window whose initialization completed and whose tree
\* has a toolbar landmark with a Gtk.Paned proper ancestor, the main split
\* container is the nearest Gtk.Paned proper ancestor of such a landmark.
C4_TreeWithToolbarUnderPaned ==
  \A w \in Windows : Registered(w) =>
    ((\E n \in Nodes : get_name(tree, n) = "NautilusToolbar" /\ PanedAbove(tree, n) # {})
       => \E n \in Nodes : /\ get_name(tree, n) = "NautilusToolbar"
                           /\ PanedAbove(tree, n) # {}
                           /\ AgentOf(w).main_paned = NearestPaned(tree, n))

\* C4: when the discovery walk of a completed initialization visits a
\* toolbar landmark, the toolbar the initialization climbed from last is one
\* the walk visited and the main split container is its nearest Gtk.Paned
\* proper ancestor; when the walk visits none, no container is recorded.
C4_MainPanedIsNearestPanedOfVisitedToolbar ==
  \A w \in Windows : Registered(w) =>
    IF \E i \in DOMAIN Visited(tree) : get_name(tree, Visited(tree)[i]) = "NautilusToolbar"
    THEN /\ AgentOf(w).toolbar \in Range(Visited(tree))
         /\ get_name(tree, AgentOf(w).toolbar) = "NautilusToolbar"
         /\ AgentOf(w).main_paned # None
         /\ AgentOf(w).main_paned = NearestPaned(tree, AgentOf(w).toolbar)
    ELSE AgentOf(w).toolbar = None /\ AgentOf(w).main_paned = None

\* A completed initialization on a tree whose toolbar lies three levels
\* below its nearest Gtk.Paned.
C4_Witness ==
  \E w \in Windows :
    /\ Registered(w)
    /\ AgentOf(w).toolbar # None
    /\ IsPaned(tree, AgentOf(w).main_paned)
    /\ tree.parent[tree.parent[tree.parent[AgentOf(w).toolbar]]] = AgentOf(w).main_paned

\* The accel group of the window has a connection of the handler for the key.
HasHandler(w, accel, func) ==
  \E i \in DOMAIN accel_group[w] :
    /\ <<accel_group[w][i].key, accel_group[w][i].mods>> = accelerator_parse(accel)
    /\ accel_group[w][i].func = func

\* Some location entry lies at or below the widget c (submenus included).
EntryUnder(t, c) ==
  /\ c # None
  /\ \E n \in Nodes : get_name(t, n) = "NautilusLocationEntry" /\ IsUnder(t, n, c, TRUE)

BothEntriesFound(t, a) ==
  /\ a.main_paned # None
  /\ EntryUnder(t, get_child1(t, a.main_paned))
  /\ EntryUnder(t, get_child2(t, a.main_paned))

\* C5: in a window whose initialization completed, on_terminal is connected
\* for Ctrl+O and on_git for Ctrl+G exactly when there is a location entry
\* under both children of the main split container, and on_edit is connected
\* for F4 in every case.
C5_LocationHandlersIffBothEntries ==
  \A w \in Windows : Registered(w) =>
    /\ HasHandler(w, "<Ctrl>O", "on_terminal") <=> BothEntriesFound(tree, AgentOf(w))
    /\ HasHandler(w, "<Ctrl>G", "on_git") <=> BothEntriesFound(tree, AgentOf(w))
    /\ HasHandler(w, "F4", "on_edit")

\* A completed initialization that found both entries, and connected.
C5_Witness ==
  \E w \in Windows :
    /\ Registered(w)
    /\ BothEntriesFound(tree, AgentOf(w))
    /\ HasHandler(w, "<Ctrl>O", "on_terminal")
    /\ HasHandler(w, "<Ctrl>G", "on_git")

\* The first location entry in the pre-order of the pane child c.
PaneEntry(t, c) ==
  CHOOSE n \in Nodes \cup {None} :
    IsFirstMatch(t, PreOrder(t, c, TRUE, {}), "NautilusLocationEntry", n)

HandlerCommand(op) == IF op = "on_terminal" THEN TerminalExec ELSE GIT_CLIENT

\* C6: an on_terminal or on_git call with the focus at or below the first
\* child of the main split container launched exactly one process, the
\* handler's command with the text of the first pane's location entry as
\* working directory; the same with the second child and the second entry.
C6_LaunchInFocusedPaneLocation ==
  event.op \in {"on_terminal", "on_git"} =>
    LET a  == agents[event.window][event.self]
        c1 == get_child1(tree, a.main_paned)
        c2 == get_child2(tree, a.main_paned)
    IN /\ IsUnder(tree, event.focus, c1, FALSE) =>
            event.launched = <<Popen(<<HandlerCommand(event.op)>>,
                                     event.texts[PaneEntry(tree, c1)])>>
       /\ IsUnder(tree, event.focus, c2, FALSE) =>
            event.launched = <<Popen(<<HandlerCommand(event.op)>>,
                                     event.texts[PaneEntry(tree, c2)])>>

\* on_git with the focus strictly below the second child while the two
\* entries hold different texts.
C6_Witness ==
  /\ event.op = "on_git"
  /\ Below(tree, event.focus,
           get_child2(tree, agents[event.window][event.self].main_paned), FALSE)
  /\ Len(event.launched) = 1
  /\ \E n \in Nodes : event.texts[n] # "" /\ event.texts[n] # event.launched[1].cwd

Handlers == {"on_copy", "on_move", "on_mkdir", "on_delete", "on_edit", "on_terminal", "on_git"}

\* C7: every call of one of the seven key handlers returned True and let no
\* exception out; a call whose body raised activated no menu item and
\* launched no process.
C7_HandlersReturnTrueAndCatchAll ==
  event.op \in Handlers =>
    /\ event.ret = "True"
    /\ ~event.escaped
    /\ event.raised => (event.activated = <<>> /\ event.launched = <<>>)

\* on_terminal without a focus widget: the body raised, the call returned True.
C7_Witness ==
  /\ event.op = "on_terminal"
  /\ event.focus = None
  /\ event.raised
  /\ event.ret = "True"

\* C8: every KeyboardShortcutsDialog that exists is the one shortcuts_dialog
\* refers to, so there is one at most; while shortcuts_dialog refers to a
\* dialog no step constructs one and an activation presents that dialog;
\* after a close shortcuts_dialog is None and no dialog exists; an activation
\* with shortcuts_dialog None constructs a dialog that did not exist before.
C8_AtMostOneShortcutsDialog ==
  /\ [](/\ \A d \in dialogs : d.id = shortcuts_dialog
        /\ Cardinality(dialogs) <= 1
        /\ event.op = "dialog_closed" => (shortcuts_dialog = None /\ dialogs = {})
        /\ event.op = "show_keyboard_shortcuts_dialog" => event.dialog = shortcuts_dialog)
  /\ [][shortcuts_dialog # None =>
          /\ created' = created
          /\ event'.op = "show_keyboard_shortcuts_dialog" =>
               (~event'.constructed /\ event'.dialog = shortcuts_dialog)]_vars
  /\ [][(shortcuts_dialog = None /\ event'.op = "show_keyboard_shortcuts_dialog") =>
          /\ event'.constructed
          /\ created' = created + 1
          /\ shortcuts_dialog' = created'
          /\ \E d \in dialogs' : d.id = created']_vars

\* The second dialog, constructed after the first was closed, is open, and
\* an activation from another window than its parent has presented it.
C8_Witness ==
  /\ created = 2
  /\ event.op = "show_keyboard_shortcuts_dialog"
  /\ ~event.constructed
  /\ \E d \in dialogs : d.id = 2 /\ d.parent # event.window

\* C9: the registry has entries only for windows the host has not destroyed,
\* each referring to one agent constructed for that window; no agent is
\* constructed for a window that has an entry, nor by a get_widget call for
\* the desktop URI; after a window's destroy the registry has no entry for it.
C9_RegistryHoldsLiveWindowsOnce ==
  /\ [](/\ \A w \in Windows : Registered(w) =>
             (w \in open /\ window_agents[w] \in DOMAIN agents[w])
        /\ \A w \in Windows \ open : ~Registered(w)
        /\ event.op = "destroy" => ~Registered(event.window))
  /\ [][\A w \in Windows : Registered(w) => agents'[w] = agents[w]]_vars
  /\ [][(event'.op = "get_widget" /\ event'.uri = DesktopUri) =>
          (agents' = agents /\ window_agents' = window_agents)]_vars

\* A destroyed window that had an agent, next to a window still registered.
C9_Witness ==
  /\ event.op = "destroy"
  /\ agents[event.window] # <<>>
  /\ \E w \in open : Registered(w)

\* C10: a get_widget call that constructed an agent without raising left
\* 'Show Hide Extra Pane' and 'SplitViewNextPane' unbound and 'Open' bound
\* to F3 in the accelerator map.
C10_InitLeavesOrthodoxBindings ==
  (event.op = "get_widget" /\ event.constructed /\ ~event.raised) =>
    /\ accel_map[ShowHidePath] = <<0, 0>>
    /\ accel_map[NextPanePath] = <<0, 0>>
    /\ accel_map[OpenPath] = accelerator_parse("F3")

\* C11: an accel_edited call on the row of an action path with a binding
\* left the accelerator map as it was before the call except that the path
\* holds the binding, whatever the path held and whoever else holds it.
C11_EditSetsBindingAndNothingElse ==
  event.op = "accel_edited" =>
    accel_map = [event.table EXCEPT ![event.path] = event.binding]

\* The local path of a file: the path of its URI with every %xy escape
\* replaced by the character it stands for.
RECURSIVE DecodedFrom(_, _)
DecodedFrom(path, i) ==
  IF i > Len(path) THEN <<>>
  ELSE IF /\ path[i] = "%"
          /\ i + 2 <= Len(path)
          /\ {path[i + 1], path[i + 2]} \subseteq HexDigits
       THEN <<"x" \o path[i + 1] \o path[i + 2]>> \o DecodedFrom(path, i + 3)
       ELSE <<path[i]>> \o DecodedFrom(path, i + 1)

LocalPath(f) == DecodedFrom(f.path, 1)

\* C12: get_file_items returns a 'Compare...' item exactly for a selection of
\* two files that both have the scheme 'file', and nothing otherwise;
\* activating the item launched the diff tool once with the local paths of
\* the two files in the order of the selection.
C12_CompareItemIffTwoLocalFiles ==
  /\ event.op = "get_file_items" =>
       /\ (file_items # <<>>) <=>
            (Len(event.files) = 2 /\ \A i \in 1..2 : event.files[i].scheme = "file")
       /\ file_items # <<>> =>
            (Len(file_items) = 1 /\ file_items[1].label = "Compare...")
  /\ event.op = "on_compare" =>
       event.launched = <<Popen(<<DIFF, LocalPath(event.files[1]),
                                  LocalPath(event.files[2])>>, "")>>

\* The item of a selection of two different local files, one with an escape
\* in its URI, has been activated.
C12_Witness ==
  /\ event.op = "on_compare"
  /\ Len(event.launched) = 1
  /\ event.files[1] # event.files[2]
  /\ event.launched[1].argv[2] # event.files[1].path

\* No two action paths hold the same binding other than the unbound one.
NoSharedBinding(map) ==
  \A p, q \in AccelPaths : (p # q /\ map[p] = map[q]) => map[p] = <<0, 0>>

C14_ToolbarWithoutPanedDegrades ==
  (/\ event.op = "get_widget" /\ event.constructed
   /\ \E n \in Nodes : get_name(tree, n) = "NautilusToolbar" /\ PanedAbove(tree, n) = {})
  => /\ ~event.raised
     /\ Registered(event.window)
     /\ AgentOf(event.window).main_paned = None
     /\ AgentOf(event.window).loc_entry1 = None
     /\ AgentOf(event.window).loc_entry2 = None
     /\ event.tables # <<>>
     /\ HasHandler(event.window, "F4", "on_edit")

OwnAccelerators == {"F4", "F5", "F6", "F7", "F8", "<Ctrl>O", "<Ctrl>G"}

\* The connections on the window's accel group for the key combination.
HandlersFor(w, accel) ==
  {i \in DOMAIN accel_group[w] :
     <<accel_group[w][i].key, accel_group[w][i].mods>> = accelerator_parse(accel)}

\* C15: the accel group of a window whose initialization completed has at
\* most one connection for each of F4, F5, F6, F7, F8, Ctrl+O and Ctrl+G.
C15_AtMostOneHandlerPerAccelerator ==
  \A w \in Windows : Registered(w) =>
    \A accel \in OwnAccelerators : Cardinality(HandlersFor(w, accel)) <= 1

\* C16: once get_widget has constructed an agent for a window whose menu
\* bar contains a widget named 'Show Hide Extra Pane', however many agents
\* were constructed for the window since, exactly one activation of such a
\* widget has happened, that of the first one in the pre-order of the menu bar.
C16_ToggleActivatedExactlyOnce ==
  \A w \in Windows :
    (/\ agents[w] # <<>>
     /\ agents[w][1].menubar # None
     /\ \E n \in Nodes : /\ get_name(tree, n) = "Show Hide Extra Pane"
                         /\ IsUnder(tree, n, agents[w][1].menubar, TRUE))
    => /\ Len(toggled[w]) = 1
       /\ IsFirstMatch(tree, PreOrder(tree, agents[w][1].menubar, TRUE, {}),
                       "Show Hide Extra Pane", toggled[w][1])

\* C17: an on_edit call with the focus on a widget that is no tree view,
\* whatever the name of the widget's parent, launched the editor once with
\* no file argument, raised nothing and returned True.
C17_EditWithoutListViewLaunchesBareEditor ==
  (event.op = "on_edit" /\ event.focus # None /\ Kind(tree, event.focus) # "TreeView")
  => /\ event.launched = <<Popen(<<EDITOR>>, "")>>
     /\ ~event.raised
     /\ event.ret = "True"

\* C18: every row of an open KeyboardShortcutsDialog shows the label of the
\* binding the accelerator map holds for the row's action path.
C18_DialogRowsShowTable ==
  \A d \in dialogs : \A p \in AccelPaths :
    d.accel_store[p] = accelerator_get_label(accel_map[p])

\* The widget is one the agent's constructor located under its menu bar
\* with the name.
LocatedItem(a, item, name) ==
  /\ item # None
  /\ get_name(tree, item) = name
  /\ a.menubar # None
  /\ Below(tree, item, a.menubar, TRUE)

\* The handler and the menu item field each function key is connected for.
MenuItemOf(a) ==
  [on_copy   |-> <<"F5", a.copy_menuitem, "Copy to next pane">>,
   on_move   |-> <<"F6", a.move_menuitem, "Move to next pane">>,
   on_mkdir  |-> <<"F7", a.mkdir_menuitem, "New Folder">>,
   on_delete |-> <<"F8", a.delete_menuitem, "Trash">>]

C19_WitnessLocation ==
  /\ event.op = "on_terminal"
  /\ ~event.raised
  /\ agents[event.window][event.self].loc_entry1 # None
  /\ agents[event.window][event.self].loc_entry2 # None

\* C20: every window for which get_widget has constructed an agent, whether
\* or not the constructor raised, has exactly one destroy callback connected;
\* the window's destroy raised nothing and left the registry without an
\* entry for the window.
C20_OneDestroyCallbackThatNeverRaises ==
  /\ \A w \in Windows : agents[w] # <<>> => destroy_handlers[w] = 1
  /\ event.op = "destroy" => (~event.raised /\ ~Registered(event.window))
====
